---- MODULE Spec2Model ----
(***************************************************************************)
(* The pytest harness of tests/conftest.py: the Playwright fixture chain   *)
(* (playwright -> browser -> context -> page -> logged_in_page), the       *)
(* pre-flight gates of logged_in_page, and the JSON reporting hooks        *)
(* (pytest_configure, pytest_runtest_makereport, pytest_runtest_teardown,  *)
(* pytest_sessionfinish) with the three report sinks.                      *)
(*                                                                         *)
(* The host runner is pytest.  Its protocol for one item is                *)
(*   setup phase, makereport(setup),                                       *)
(*   [call phase, makereport(call)]   only when the setup report passed,   *)
(*   teardown phase, makereport(teardown)                                  *)
(* and the teardown phase is the call of the pytest_runtest_teardown hook: *)
(* conftest.py's implementation first (plugins registered later are called *)
(* first), then the runner's own, which runs the fixture finalizers in     *)
(* reverse order of setup.  The teardown report is made from the result of *)
(* that whole hook call, so it is stored after conftest.py's               *)
(* pytest_runtest_teardown has returned.                                   *)
(***************************************************************************)
EXTENDS Integers, Sequences, FiniteSets, TLC

\* Number of test items the runner collected for the session.
NumTests == 3

\* Number of records appended one after another to one per-test history file.
MaxAppends == 3

\* Number of sessions invoked one after another in the same working directory.
MaxRuns == 3

\* Seconds of wall-clock time that pass over those sessions.
MaxElapsed == 1

\* Length of the node ids given to the file-name encoding.
MaxNameLen == 3

VARIABLES
    env,            \* os.environ and the network: BASE_URL, TEST_USER, TEST_PASS, listening
    pc,             \* position of the runner in the session
    cur,            \* index of the item being run (0 before the first)
    todo,           \* fixtures of the current item still to set up, in order
    stack,          \* fixtures whose teardown is pending, in order of setup
    res,            \* the Playwright objects: driver, browser, contexts, pages
    cache,          \* cached fixture results, per fixture name
    nav,            \* what the current item did: probe, goto, login, test body
    callinfo,       \* result of the phase that just ran, not yet reported
    rep_by_phase,   \* item._rep_by_phase of the current item
    config,         \* _PYTEST_CONFIG and the run attributes attached to it
    reports,        \* the reports/ directory: tests/*.json, history.jsonl, runs/*.json
    fn,             \* input and output of a helper function applied on its own
    session         \* the runner's session: its exit status

vars == <<env, pc, cur, todo, stack, res, cache, nav, callinfo, rep_by_phase, config, reports, fn, session>>

----------------------------------------------------------------------------
(* Strings are sequences of characters; a multi-character element stands   *)
(* for a run of characters none of which a helper treats specially.        *)

Last(s) == s[Len(s)]
Front(s) == SubSeq(s, 1, Len(s) - 1)

RECURSIVE lstrip(_)
lstrip(s) == IF s # <<>> /\ Head(s) = " " THEN lstrip(Tail(s)) ELSE s

RECURSIVE rstrip(_)
rstrip(s) == IF s # <<>> /\ Last(s) = " " THEN rstrip(Front(s)) ELSE s

\* str.strip()
strip(s) == rstrip(lstrip(s))

\* str.replace(old, new): left to right, non-overlapping.
RECURSIVE replace(_, _, _)
replace(s, old, new) ==
    IF Len(s) < Len(old) THEN s
    ELSE IF SubSeq(s, 1, Len(old)) = old
         THEN new \o replace(SubSeq(s, Len(old) + 1, Len(s)), old, new)
         ELSE <<Head(s)>> \o replace(Tail(s), old, new)

_safe_filename(text) ==
    LET s1 == replace(text, <<"/">>, <<"_", "_">>)
        s2 == replace(s1, <<"\\">>, <<"_", "_">>)
        s3 == replace(s2, <<":", ":">>, <<"_", "_">>)
        s4 == replace(s3, <<"[">>, <<"_">>)
        s5 == replace(s4, <<"]">>, <<"_">>)
        s6 == replace(s5, <<" ">>, <<"_">>)
    IN  replace(s6, <<":">>, <<"_">>)

----------------------------------------------------------------------------
(* The items of the session, in collection order: the three test files of  *)
(* tests/, each with one test function taking logged_in_page.              *)

Tests == 1..NumTests

TestName(i) ==
    IF i = 1 THEN "happy_path_by_amount"
    ELSE IF i = 2 THEN "happy_path_by_grams"
    ELSE IF i = 3 THEN "negative_insufficient_funds"
    ELSE ToString(i)

\* item.nodeid
NodeId(i) == <<"tests", "/", "test_buy_gold_", TestName(i), ".py", ":", ":", "test_buy_gold_", TestName(i)>>

PerTestFile(i) == _safe_filename(NodeId(i)) \o <<".json">>

----------------------------------------------------------------------------
(* Environment.  A URL value carries what urlparse makes of it.            *)

Url(text, scheme, hostname, has_port, port) ==
    [text |-> text, scheme |-> scheme, hostname |-> hostname, has_port |-> has_port, port |-> port]

LocalUrl == Url("http://localhost:3000", "http", "localhost", TRUE, 3000)
HttpsUrl == Url("https://gold.example", "https", "gold.example", FALSE, 0)
HttpUrl == Url("http://gold.example", "http", "gold.example", FALSE, 0)
NoHostUrl == Url("localhost", "", "", FALSE, 0)

\* The endpoints that accept a TCP connection within the timeout.
Down == {}
Up == {<<"gold.example", 443>>}

Environment(url, user, pass, listening) ==
    [BASE_URL |-> url, TEST_USER |-> user, TEST_PASS |-> pass, listening |-> listening,
     now |-> [second |-> 11, microsecond |-> 0]]

\* The environments a session starts in.  <<>> is also what os.getenv(name, "")
\* gives for a variable that is not set.
Environments ==
    { Environment(LocalUrl, <<>>, <<>>, Down),
      Environment(HttpsUrl, <<"u", " ">>, <<" ", "p">>, Up),
      Environment(HttpsUrl, <<" ">>, <<" ", "p">>, Up),
      Environment(HttpsUrl, <<"u", " ">>, <<>>, Up),
      Environment(HttpsUrl, <<"u", " ">>, <<" ", "p">>, Down),
      Environment(HttpUrl, <<"u", " ">>, <<" ", "p">>, Up),
      Environment(NoHostUrl, <<>>, <<" ", "p">>, Up) }

\* pw_config.PW["base_url"]
base_url == env.BASE_URL

\* The values of the variables taken as they are.
credentials_unstripped == [username |-> env.TEST_USER, password |-> env.TEST_PASS]

credentials == [username |-> strip(env.TEST_USER), password |-> strip(env.TEST_PASS)]

_is_reachable(url) ==
    IF url.hostname = "" THEN FALSE
    ELSE LET port == IF url.has_port THEN url.port
                     ELSE IF url.scheme = "https" THEN 443 ELSE 80
         IN  <<url.hostname, port>> \in env.listening

----------------------------------------------------------------------------
(* Values of the reporting layer.                                          *)

Phases == {"setup", "call", "teardown"}

\* A longrepr: its text, and whether str() of it raises.
NoRepr == [text |-> <<>>, str_raises |-> FALSE]

FailureRepr(when, str_raises) == [text |-> <<"E   error in ", when>>, str_raises |-> str_raises]

\* The longreprs a failing phase may leave; one that cannot be stringified is
\* drawn for the test body only.
FailureReprs(when) ==
    { FailureRepr(when, b) : b \in IF when = "call" THEN BOOLEAN ELSE {FALSE} }

\* reps.get(phase) when the phase has no report: None.
NoRep == [outcome |-> "absent", longrepr |-> NoRepr, duration |-> 0]

NoReps == [ph \in Phases |-> NoRep]

NoCall == [when |-> "none", outcome |-> "passed", longrepr |-> NoRepr]

NoNav == [probed |-> FALSE, goto |-> FALSE, login |-> FALSE, body |-> FALSE]

\* A file that does not exist, and a file holding a JSON list.
NoFile == [exists |-> FALSE, kind |-> "none", items |-> <<>>]

JsonList(items) == [exists |-> TRUE, kind |-> "list", items |-> items]

\* datetime.now(ist): the wall clock, read to the microsecond.
_now_ist == env.now

\* dt.strftime("%Y-%m-%dT%H%M%S%z"): the date and time down to the second; the
\* microseconds are not part of the text.
strftime(dt) == <<"2026-02-16T0049", dt.second, "+0530">>

_run_file_stamp == strftime(_now_ist)

----------------------------------------------------------------------------
(* The Report Store.                                                       *)

\* json.loads(file_path.read_text()) raises on text that is not JSON.
LoadsRaises(file) == file.kind = "garbage"

\* The list started afresh at every append.
_append_json_array_afresh(file, record) == JsonList(<<record>>)

\* Whatever parses is taken for the list.
_append_json_array_unchecked(file, record) ==
    LET data == IF file.exists
                THEN IF LoadsRaises(file) THEN <<>> ELSE file.items
                ELSE <<>>
    IN  JsonList(Append(data, record))

_append_json_array(file, record) ==
    LET data == IF file.exists
                THEN IF LoadsRaises(file) THEN <<>>
                     ELSE IF file.kind # "list" THEN <<>>
                     ELSE file.items
                ELSE <<>>
    IN  JsonList(Append(data, record))

\* The line written at the head of the file.
_append_jsonl_at_head(lines, record) == <<record>> \o lines

_append_jsonl(lines, record) == Append(lines, record)

----------------------------------------------------------------------------
(* The Outcome Reconciler: the pure part of pytest_runtest_teardown.       *)

_phase_outcome(rep) == rep.outcome

\* The teardown slot left out of the reduction.
final_outcome_teardown_ignored(reps) ==
    IF _phase_outcome(reps.setup) = "failed" THEN "failed"
    ELSE IF _phase_outcome(reps.call) = "failed" THEN "failed"
    ELSE IF _phase_outcome(reps.setup) = "skipped" \/ _phase_outcome(reps.call) = "skipped"
         THEN "skipped"
    ELSE "passed"

\* The skip test placed ahead of the failure tests.
final_outcome_skip_first(reps) ==
    IF _phase_outcome(reps.setup) = "skipped" \/ _phase_outcome(reps.call) = "skipped"
    THEN "skipped"
    ELSE IF _phase_outcome(reps.setup) = "failed" THEN "failed"
    ELSE IF _phase_outcome(reps.call) = "failed" THEN "failed"
    ELSE IF _phase_outcome(reps.teardown) = "failed" THEN "failed"
    ELSE "passed"

final_outcome(reps) ==
    IF _phase_outcome(reps.setup) = "failed" THEN "failed"
    ELSE IF _phase_outcome(reps.call) = "failed" THEN "failed"
    ELSE IF _phase_outcome(reps.teardown) = "failed" THEN "failed"
    ELSE IF _phase_outcome(reps.setup) = "skipped" \/ _phase_outcome(reps.call) = "skipped"
         THEN "skipped"
    ELSE "passed"

total_duration(reps) == reps.setup.duration + reps.call.duration + reps.teardown.duration

NoError == [is_none |-> TRUE, text |-> <<>>]

Stringify(longrepr) ==
    IF longrepr.str_raises
    THEN [is_none |-> FALSE, text |-> <<"Test failed (unable to stringify longrepr).">>]
    ELSE [is_none |-> FALSE, text |-> longrepr.text]

\* The text taken from the call phase alone.
error_text_call_only(reps) ==
    IF final_outcome(reps) = "failed" /\ reps.call.outcome = "failed"
    THEN Stringify(reps.call.longrepr)
    ELSE NoError

\* The phases searched in execution order: setup, call, teardown.
error_text_setup_first(reps) ==
    IF final_outcome(reps) = "failed"
    THEN IF reps.setup.outcome = "failed" THEN Stringify(reps.setup.longrepr)
         ELSE IF reps.call.outcome = "failed" THEN Stringify(reps.call.longrepr)
         ELSE IF reps.teardown.outcome = "failed" THEN Stringify(reps.teardown.longrepr)
         ELSE NoError
    ELSE NoError

error_text(reps) ==
    IF final_outcome(reps) = "failed"
    THEN IF reps.call.outcome = "failed" THEN Stringify(reps.call.longrepr)
         ELSE IF reps.setup.outcome = "failed" THEN Stringify(reps.setup.longrepr)
         ELSE IF reps.teardown.outcome = "failed" THEN Stringify(reps.teardown.longrepr)
         ELSE NoError
    ELSE NoError

\* The record of one test execution (timestamps and the platform fields left out).
Record(cfg, i, reps) ==
    [ run_id |-> cfg._run_id,
      nodeid |-> NodeId(i),
      outcome |-> final_outcome(reps),
      duration_seconds |-> total_duration(reps),
      error |-> error_text(reps),
      base_url |-> env.BASE_URL.text ]

\* A record as pytest_runtest_teardown builds it, with the outcome given, in a
\* run configured a second before the sessions here.
SampleRecord(i, o) ==
    [ run_id |-> <<"run_", strftime([second |-> 10, microsecond |-> 0])>>,
      nodeid |-> NodeId(i),
      outcome |-> o,
      duration_seconds |-> 1,
      error |-> IF o = "failed" THEN Stringify(FailureRepr("call", FALSE)) ELSE NoError,
      base_url |-> LocalUrl.text ]

RECURSIVE CountOutcome(_, _)
CountOutcome(results, o) ==
    IF results = <<>> THEN 0
    ELSE (IF Head(results).outcome = o THEN 1 ELSE 0) + CountOutcome(Tail(results), o)

\* The total taken as passed plus failed.
Summary_total_without_skipped(cfg, status) ==
    [ run_id |-> cfg._run_id,
      exitstatus |-> status,
      totals |-> [ total |-> CountOutcome(cfg._results, "passed") + CountOutcome(cfg._results, "failed"),
                   passed |-> CountOutcome(cfg._results, "passed"),
                   failed |-> CountOutcome(cfg._results, "failed"),
                   skipped |-> CountOutcome(cfg._results, "skipped") ],
      results |-> cfg._results ]

Summary(cfg, status) ==
    [ run_id |-> cfg._run_id,
      exitstatus |-> status,
      totals |-> [ total |-> Len(cfg._results),
                   passed |-> CountOutcome(cfg._results, "passed"),
                   failed |-> CountOutcome(cfg._results, "failed"),
                   skipped |-> CountOutcome(cfg._results, "skipped") ],
      results |-> cfg._results ]

----------------------------------------------------------------------------
(* The Session Fixture Chain.                                              *)

Fixtures == {"playwright", "browser", "context", "page", "logged_in_page"}

\* context given the scope of the browser it is made from.
FixtureScope_session_context(f) ==
    IF f \in {"playwright", "browser", "context"} THEN "session" ELSE "function"

\* The scope= of each @pytest.fixture.
FixtureScope(f) == IF f \in {"playwright", "browser"} THEN "session" ELSE "function"

\* The fixtures of an item taking logged_in_page, each after the ones it takes.
SetupOrder == <<"playwright", "browser", "context", "page", "logged_in_page">>

NotCached == [st |-> "none", id |-> 0]

\* The fixture at the head of todo is the next one to set up and runs its body.
Runs(f) == pc = "setup" /\ todo # <<>> /\ Head(todo) = f /\ cache[f].st = "none"

\* The fixture returned or yielded: on to the next, or the setup phase has passed.
Advance ==
    /\ todo' = Tail(todo)
    /\ IF Tail(todo) = <<>>
       THEN /\ pc' = "report"
            /\ callinfo' = [when |-> "setup", outcome |-> "passed", longrepr |-> NoRepr]
       ELSE UNCHANGED <<pc, callinfo>>

\* The fixture raised: the setup phase ends, with that outcome.
SetupEnds(f, outcome, longrepr) ==
    /\ cache' = [cache EXCEPT ![f] = [st |-> "failed", id |-> 0]]
    /\ callinfo' = [when |-> "setup", outcome |-> outcome, longrepr |-> longrepr]
    /\ pc' = "report"
    /\ todo' = <<>>

SetupRaises(f) == \E lr \in FailureReprs("setup") : SetupEnds(f, "failed", lr)

UseContext(r, id, t) == [r EXCEPT !.contexts[id].users = @ \cup {t}]

UsePage(r, id, t) == [r EXCEPT !.pages[id].users = @ \cup {t}]

\* A fixture already set up in its scope: its cached value, or its cached exception.
fixture_cached ==
    /\ pc = "setup" /\ todo # <<>> /\ cache[Head(todo)].st # "none"
    /\ IF cache[Head(todo)].st = "ok"
       THEN /\ Advance
            /\ res' = IF Head(todo) = "context" THEN UseContext(res, cache.context.id, cur)
                      ELSE IF Head(todo) = "page" THEN UsePage(res, cache.page.id, cur)
                      ELSE res
            /\ UNCHANGED cache
       ELSE /\ \E lr \in FailureReprs("setup") :
                 /\ callinfo' = [when |-> "setup", outcome |-> "failed", longrepr |-> lr]
                 /\ pc' = "report"
                 /\ todo' = <<>>
            /\ UNCHANGED <<res, cache>>
    /\ UNCHANGED <<env, cur, stack, nav, rep_by_phase, config, reports, fn, session>>

playwright ==
    /\ Runs("playwright")
    /\ \/ /\ res' = [res EXCEPT !.playwright = "started"]
          /\ cache' = [cache EXCEPT !.playwright = [st |-> "ok", id |-> 0]]
          /\ stack' = Append(stack, "playwright")
          /\ Advance
       \/ /\ SetupRaises("playwright")
          /\ UNCHANGED <<res, stack>>
    /\ UNCHANGED <<env, cur, nav, rep_by_phase, config, reports, fn, session>>

browser ==
    /\ Runs("browser")
    /\ \/ /\ res' = [res EXCEPT !.browser = "open", !.launches = @ + 1]
          /\ cache' = [cache EXCEPT !.browser = [st |-> "ok", id |-> 0]]
          /\ stack' = Append(stack, "browser")
          /\ Advance
       \/ /\ SetupRaises("browser")
          /\ UNCHANGED <<res, stack>>
    /\ UNCHANGED <<env, cur, nav, rep_by_phase, config, reports, fn, session>>

context ==
    /\ Runs("context")
    /\ \/ /\ res' = [res EXCEPT !.contexts = Append(@, [state |-> "open", users |-> {cur}])]
          /\ cache' = [cache EXCEPT !.context = [st |-> "ok", id |-> Len(res.contexts) + 1]]
          /\ stack' = Append(stack, "context")
          /\ Advance
       \/ /\ SetupRaises("context")
          /\ UNCHANGED <<res, stack>>
    /\ UNCHANGED <<env, cur, nav, rep_by_phase, config, reports, fn, session>>

page ==
    /\ Runs("page")
    /\ \/ /\ res' = [UseContext(res, cache.context.id, cur) EXCEPT
                        !.pages = Append(@, [ctx |-> cache.context.id, state |-> "open", users |-> {cur}])]
          /\ cache' = [cache EXCEPT !.page = [st |-> "ok", id |-> Len(res.pages) + 1]]
          /\ stack' = Append(stack, "page")
          /\ Advance
       \/ /\ SetupRaises("page")
          /\ UNCHANGED <<res, stack>>
    /\ UNCHANGED <<env, cur, nav, rep_by_phase, config, reports, fn, session>>

\* The reason pytest.skip is called with.
UnreachableReason(url) ==
    [text |-> <<"BASE_URL not reachable: ", url.text, ". Start your local app (if using localhost) or set BASE_URL to a reachable staging/demo URL.">>,
     str_raises |-> FALSE]

MissingCredentialsReason ==
    [text |-> <<"Missing TEST_USER/TEST_PASS in .env. Please set them before running UI tests.">>,
     str_raises |-> FALSE]

\* The credentials gate placed ahead of the reachability gate.
logged_in_page_credentials_first ==
    /\ Runs("logged_in_page")
    /\ IF credentials.username = <<>> \/ credentials.password = <<>>
       THEN /\ SetupEnds("logged_in_page", "skipped", MissingCredentialsReason)
            /\ nav' = [nav EXCEPT !.probed = TRUE]
            /\ UNCHANGED res
       ELSE IF ~_is_reachable(base_url)
       THEN /\ SetupEnds("logged_in_page", "skipped", UnreachableReason(base_url))
            /\ nav' = [nav EXCEPT !.probed = TRUE]
            /\ UNCHANGED res
       ELSE /\ res' = UsePage(res, cache.page.id, cur)
            /\ \/ /\ SetupRaises("logged_in_page")
                  /\ nav' = [nav EXCEPT !.probed = TRUE, !.goto = TRUE]
               \/ /\ SetupRaises("logged_in_page")
                  /\ nav' = [nav EXCEPT !.probed = TRUE, !.goto = TRUE, !.login = TRUE]
               \/ /\ cache' = [cache EXCEPT !.logged_in_page = [st |-> "ok", id |-> cache.page.id]]
                  /\ nav' = [nav EXCEPT !.probed = TRUE, !.goto = TRUE, !.login = TRUE]
                  /\ Advance
    /\ UNCHANGED <<env, cur, stack, rep_by_phase, config, reports, fn, session>>

logged_in_page ==
    /\ Runs("logged_in_page")
    /\ IF ~_is_reachable(base_url)
       THEN /\ SetupEnds("logged_in_page", "skipped", UnreachableReason(base_url))
            /\ nav' = [nav EXCEPT !.probed = TRUE]
            /\ UNCHANGED res
       ELSE IF credentials.username = <<>> \/ credentials.password = <<>>
       THEN /\ SetupEnds("logged_in_page", "skipped", MissingCredentialsReason)
            /\ nav' = [nav EXCEPT !.probed = TRUE]
            /\ UNCHANGED res
       ELSE /\ res' = UsePage(res, cache.page.id, cur)
            /\ \/ /\ SetupRaises("logged_in_page")
                  /\ nav' = [nav EXCEPT !.probed = TRUE, !.goto = TRUE]
               \/ /\ SetupRaises("logged_in_page")
                  /\ nav' = [nav EXCEPT !.probed = TRUE, !.goto = TRUE, !.login = TRUE]
               \/ /\ cache' = [cache EXCEPT !.logged_in_page = [st |-> "ok", id |-> cache.page.id]]
                  /\ nav' = [nav EXCEPT !.probed = TRUE, !.goto = TRUE, !.login = TRUE]
                  /\ Advance
    /\ UNCHANGED <<env, cur, stack, rep_by_phase, config, reports, fn, session>>

\* The teardown of fixture f is the next finalizer the runner calls: the last one
\* set up, when its scope ends (nextitem is None after the last item).
Finalizing(f) ==
    /\ pc \in {"finalize", "session_teardown"}
    /\ stack # <<>> /\ Last(stack) = f
    /\ pc = "session_teardown" \/ FixtureScope(f) = "function" \/ cur = NumTests

\* The finalizer returned, or raised: the teardown phase then fails.
Finalized(f) ==
    /\ stack' = Front(stack)
    /\ cache' = [cache EXCEPT ![f] = NotCached]
    /\ \/ UNCHANGED callinfo
       \/ /\ pc = "finalize"
          /\ callinfo.outcome = "passed"
          /\ \E lr \in FailureReprs("teardown") :
                callinfo' = [when |-> "teardown", outcome |-> "failed", longrepr |-> lr]
    /\ UNCHANGED <<env, pc, cur, todo, nav, rep_by_phase, config, reports, fn, session>>

\* page returning its value, with nothing after it.
page_close_missing ==
    /\ Finalizing("page")
    /\ UNCHANGED res
    /\ Finalized("page")

\* p.close() after the yield of page.
page_close ==
    /\ Finalizing("page")
    /\ res' = [res EXCEPT !.pages[cache.page.id].state = "closed"]
    /\ Finalized("page")

\* ctx.close() after the yield of context.
context_close ==
    /\ Finalizing("context")
    /\ res' = [res EXCEPT !.contexts[cache.context.id].state = "closed"]
    /\ Finalized("context")

\* browser.close() after the yield of browser.
browser_close ==
    /\ Finalizing("browser")
    /\ res' = [res EXCEPT !.browser = "closed"]
    /\ Finalized("browser")

\* The exit of the with sync_playwright() block.
playwright_exit ==
    /\ Finalizing("playwright")
    /\ res' = [res EXCEPT !.playwright = "stopped"]
    /\ Finalized("playwright")

\* No finalizer is left for this item: results cached for the scopes that ended are dropped.
finalizers_done ==
    /\ pc = "finalize"
    /\ stack = <<>> \/ ~Finalizing(Last(stack))
    /\ cache' = [f \in Fixtures |->
                    IF FixtureScope(f) = "function" \/ cur = NumTests THEN NotCached ELSE cache[f]]
    /\ pc' = "report"
    /\ UNCHANGED <<env, cur, todo, stack, res, nav, callinfo, rep_by_phase, config, reports, fn, session>>

----------------------------------------------------------------------------
(* The runner and the reporting hooks.                                     *)

pytest_configure ==
    /\ pc = "configure"
    /\ config' = [set |-> TRUE, _run_id |-> <<"run_", _run_file_stamp>>, _results |-> <<>>]
    /\ pc' = "next"
    /\ UNCHANGED <<env, cur, todo, stack, res, cache, nav, callinfo, rep_by_phase, reports, fn, session>>

\* The runner takes the next item: a new item object, its fixtures to be set up.
runtestprotocol ==
    /\ pc = "next"
    /\ cur < NumTests
    /\ cur' = cur + 1
    /\ todo' = SetupOrder
    /\ nav' = NoNav
    /\ rep_by_phase' = NoReps
    /\ callinfo' = NoCall
    /\ pc' = "setup"
    /\ UNCHANGED <<env, stack, res, cache, config, reports, fn, session>>

\* The body of a test function: the purchase flow on the page it was given.
test_buy_gold ==
    /\ pc = "call"
    /\ nav' = [nav EXCEPT !.body = TRUE]
    /\ res' = UsePage(res, cache.logged_in_page.id, cur)
    /\ \/ callinfo' = [when |-> "call", outcome |-> "passed", longrepr |-> NoRepr]
       \/ \E lr \in FailureReprs("call") :
             callinfo' = [when |-> "call", outcome |-> "failed", longrepr |-> lr]
    /\ pc' = "report"
    /\ UNCHANGED <<env, cur, todo, stack, cache, rep_by_phase, config, reports, fn, session>>

\* Where the runner goes after the report of a phase.
AfterReport(when, outcome) ==
    IF when = "setup" THEN (IF outcome = "passed" THEN "call" ELSE "teardown")
    ELSE IF when = "call" THEN "teardown"
    ELSE IF cur < NumTests THEN "next" ELSE "sessionfinish"

pytest_runtest_makereport ==
    /\ pc = "report"
    /\ rep_by_phase' = [rep_by_phase EXCEPT ![callinfo.when] =
                           [outcome |-> callinfo.outcome, longrepr |-> callinfo.longrepr, duration |-> 1]]
    /\ session' = IF callinfo.outcome = "failed" THEN [session EXCEPT !.exitstatus = 1] ELSE session
    /\ pc' = AfterReport(callinfo.when, callinfo.outcome)
    /\ UNCHANGED <<env, cur, todo, stack, res, cache, nav, callinfo, config, reports, fn>>

\* The record written only for an item whose call phase reported.
pytest_runtest_teardown_called_only ==
    /\ pc = "teardown"
    /\ IF ~config.set \/ rep_by_phase.call = NoRep
       THEN UNCHANGED <<config, reports>>
       ELSE LET record == Record(config, cur, rep_by_phase)
            IN  /\ config' = [config EXCEPT !._results = Append(@, record)]
                /\ reports' = [reports EXCEPT
                                  !.tests[PerTestFile(cur)] = _append_json_array(@, record),
                                  !.history = _append_jsonl(@, record)]
    /\ callinfo' = [when |-> "teardown", outcome |-> "passed", longrepr |-> NoRepr]
    /\ pc' = "finalize"
    /\ UNCHANGED <<env, cur, todo, stack, res, cache, nav, rep_by_phase, fn, session>>

pytest_runtest_teardown ==
    /\ pc = "teardown"
    /\ IF ~config.set
       THEN UNCHANGED <<config, reports>>
       ELSE LET record == Record(config, cur, rep_by_phase)
            IN  /\ config' = [config EXCEPT !._results = Append(@, record)]
                /\ reports' = [reports EXCEPT
                                  !.tests[PerTestFile(cur)] = _append_json_array(@, record),
                                  !.history = _append_jsonl(@, record)]
    /\ callinfo' = [when |-> "teardown", outcome |-> "passed", longrepr |-> NoRepr]
    /\ pc' = "finalize"
    /\ UNCHANGED <<env, cur, todo, stack, res, cache, nav, rep_by_phase, fn, session>>

\* The summary written only for a session that ran to its end.
pytest_sessionfinish_unless_interrupted ==
    /\ pc = "sessionfinish"
    /\ reports' = IF session.exitstatus \in {0, 1}
                  THEN [reports EXCEPT !.runs =
                           Append(@, [name |-> config._run_id \o <<".json">>,
                                      summary |-> Summary(config, session.exitstatus)])]
                  ELSE reports
    /\ pc' = "session_teardown"
    /\ UNCHANGED <<env, cur, todo, stack, res, cache, nav, callinfo, rep_by_phase, config, fn, session>>

pytest_sessionfinish ==
    /\ pc = "sessionfinish"
    /\ reports' = [reports EXCEPT !.runs =
                      Append(@, [name |-> config._run_id \o <<".json">>,
                                 summary |-> Summary(config, session.exitstatus)])]
    /\ pc' = "session_teardown"
    /\ UNCHANGED <<env, cur, todo, stack, res, cache, nav, callinfo, rep_by_phase, config, fn, session>>

\* Every finalizer has run: the session is over.
session_over ==
    /\ pc = "session_teardown"
    /\ stack = <<>>
    /\ pc' = "done"
    /\ UNCHANGED <<env, cur, todo, stack, res, cache, nav, callinfo, rep_by_phase, config, reports, fn, session>>

\* Ctrl-C (exit status 2) or an internal error of the runner (3) during collection
\* or while a phase runs: the item's protocol is abandoned, the item and what the
\* runner held for it are dropped, and the session ends.
KeyboardInterrupt ==
    /\ pc \in {"next", "setup", "call", "finalize"}
    /\ pc' = "sessionfinish"
    /\ \E status \in {2, 3} : session' = [session EXCEPT !.exitstatus = status]
    /\ todo' = <<>>
    /\ callinfo' = NoCall
    /\ rep_by_phase' = NoReps
    /\ UNCHANGED <<env, cur, stack, res, cache, nav, config, reports, fn>>

----------------------------------------------------------------------------

NoFn == [op |-> "none"]

\* What history.jsonl holds when a session starts: nothing, or the line of an
\* earlier run.
Histories == { <<>>, <<SampleRecord(1, "failed")>> }

\* The state before pytest_configure, in environment e, with history.jsonl
\* holding the lines given.
Started(e, lines) ==
    /\ env = e
    /\ pc = "configure"
    /\ cur = 0
    /\ todo = <<>>
    /\ stack = <<>>
    /\ res = [playwright |-> "none", browser |-> "none", launches |-> 0,
              contexts |-> <<>>, pages |-> <<>>]
    /\ cache = [f \in Fixtures |-> NotCached]
    /\ nav = NoNav
    /\ callinfo = NoCall
    /\ rep_by_phase = NoReps
    /\ config = [set |-> FALSE, _run_id |-> <<>>, _results |-> <<>>]
    /\ reports = [tests |-> [f \in {PerTestFile(i) : i \in Tests} |-> NoFile],
                  history |-> lines, runs |-> <<>>]
    /\ session = [exitstatus |-> 0]

\* The same with no reports yet.
Fresh(e) == Started(e, <<>>)

Init ==
    /\ \E e \in Environments, lines \in Histories : Started(e, lines)
    /\ fn = NoFn

Next ==
    \/ pytest_configure
    \/ runtestprotocol
    \/ fixture_cached
    \/ playwright
    \/ browser
    \/ context
    \/ page
    \/ logged_in_page
    \/ test_buy_gold
    \/ pytest_runtest_makereport
    \/ pytest_runtest_teardown
    \/ page_close
    \/ context_close
    \/ browser_close
    \/ playwright_exit
    \/ finalizers_done
    \/ pytest_sessionfinish
    \/ session_over
    \/ KeyboardInterrupt

Spec == Init /\ [][Next]_vars

----------------------------------------------------------------------------
(* The reduction applied on its own, to every combination of the slots.    *)

\* The reports a slot can hold, None included.
SlotValues ==
    { NoRep,
      [outcome |-> "passed", longrepr |-> NoRepr, duration |-> 1],
      [outcome |-> "skipped", longrepr |-> MissingCredentialsReason, duration |-> 1],
      [outcome |-> "failed", longrepr |-> FailureRepr("phase", FALSE), duration |-> 1],
      [outcome |-> "failed", longrepr |-> FailureRepr("phase", TRUE), duration |-> 1] }

InitReduce ==
    /\ Fresh(Environment(LocalUrl, <<>>, <<>>, Down))
    /\ fn \in { [op |-> "reduce", reps |-> r, done |-> FALSE, outcome |-> "none", error |-> NoError] :
                  r \in [Phases -> SlotValues] }

\* The reduction of pytest_runtest_teardown on the slots given.
reduce ==
    /\ fn.op = "reduce"
    /\ ~fn.done
    /\ fn' = [fn EXCEPT !.done = TRUE,
                        !.outcome = final_outcome(fn.reps),
                        !.error = error_text(fn.reps)]
    /\ UNCHANGED <<env, pc, cur, todo, stack, res, cache, nav, callinfo, rep_by_phase, config, reports, session>>

SpecReduce == InitReduce /\ [][reduce]_vars

----------------------------------------------------------------------------
(* The whole of pytest_runtest_teardown on its own: the hook called for    *)
(* the first item of a configured session, with every combination of       *)
(* reports in the item's slots, each failure with the text of its phase.   *)

\* The reports the slot of a phase can hold, None included.
SlotsOf(ph) ==
    { NoRep,
      [outcome |-> "passed", longrepr |-> NoRepr, duration |-> 1],
      [outcome |-> "skipped", longrepr |-> MissingCredentialsReason, duration |-> 1],
      [outcome |-> "failed", longrepr |-> FailureRepr(ph, FALSE), duration |-> 1],
      [outcome |-> "failed", longrepr |-> FailureRepr(ph, TRUE), duration |-> 1] }

\* The teardown hook is about to be called for the first item.
HookEntered ==
    /\ env = Environment(HttpsUrl, <<"u">>, <<"p">>, Up)
    /\ pc = "teardown"
    /\ cur = 1
    /\ todo = <<>>
    /\ stack = <<>>
    /\ res = [playwright |-> "none", browser |-> "none", launches |-> 0,
              contexts |-> <<>>, pages |-> <<>>]
    /\ cache = [f \in Fixtures |-> NotCached]
    /\ nav = NoNav
    /\ callinfo = NoCall
    /\ rep_by_phase \in { r \in [Phases -> UNION { SlotsOf(ph) : ph \in Phases }] :
                             \A ph \in Phases : r[ph] \in SlotsOf(ph) }
    /\ config = [set |-> TRUE, _run_id |-> <<"run_", _run_file_stamp>>, _results |-> <<>>]
    /\ reports = [tests |-> [f \in {PerTestFile(i) : i \in Tests} |-> NoFile],
                  history |-> <<>>, runs |-> <<>>]
    /\ session = [exitstatus |-> 0]

InitHook ==
    /\ HookEntered
    /\ fn = NoFn

SpecHook == InitHook /\ [][pytest_runtest_teardown]_vars

----------------------------------------------------------------------------
(* The three writes of pytest_runtest_teardown taken one statement at a    *)
(* time, in the order of the statements, from the same states as above.    *)

\* The sinks written before the run's results.
SinkOrder_files_first == <<"per_test", "history", "results">>

\* The order of the statements: config._results.append, _append_json_array,
\* _append_jsonl.
SinkOrder == <<"results", "per_test", "history">>

InitSinks ==
    /\ HookEntered
    /\ fn = [op |-> "sinks", step |-> 1]

\* The hook is at the statement that writes the sink given.
AtStatement(sink) ==
    /\ pc = "teardown"
    /\ fn.op = "sinks"
    /\ fn.step \in DOMAIN SinkOrder
    /\ SinkOrder[fn.step] = sink

\* The statement is done: the next one, or the return of the hook.
StatementDone ==
    /\ fn' = [fn EXCEPT !.step = @ + 1]
    /\ pc' = IF fn.step = Len(SinkOrder) THEN "finalize" ELSE pc
    /\ callinfo' = IF fn.step = Len(SinkOrder)
                   THEN [when |-> "teardown", outcome |-> "passed", longrepr |-> NoRepr]
                   ELSE callinfo
    /\ UNCHANGED <<env, cur, todo, stack, res, cache, nav, rep_by_phase, session>>

\* config._results.append(record)
results_append ==
    /\ AtStatement("results")
    /\ config' = [config EXCEPT !._results = Append(@, Record(config, cur, rep_by_phase))]
    /\ UNCHANGED reports
    /\ StatementDone

\* _append_json_array(per_test_file, record)
per_test_append ==
    /\ AtStatement("per_test")
    /\ reports' = [reports EXCEPT !.tests[PerTestFile(cur)] =
                      _append_json_array(@, Record(config, cur, rep_by_phase))]
    /\ UNCHANGED config
    /\ StatementDone

\* _append_jsonl(config._reports_history_jsonl, record)
history_append ==
    /\ AtStatement("history")
    /\ reports' = [reports EXCEPT !.history = _append_jsonl(@, Record(config, cur, rep_by_phase))]
    /\ UNCHANGED config
    /\ StatementDone

NextSinks ==
    \/ results_append
    \/ per_test_append
    \/ history_append

SpecSinks == InitSinks /\ [][NextSinks]_vars

----------------------------------------------------------------------------
(* The per-test history file and history.jsonl on their own: records       *)
(* appended one after another to a per-test file that starts absent, valid *)
(* or corrupted, and to a log that starts empty or with a line.            *)

Outcomes == {"passed", "failed", "skipped"}

\* Text that is not JSON, the JSON string "not a list", and a JSON object.
CorruptFiles ==
    { [exists |-> TRUE, kind |-> "garbage", items |-> <<"[{">>],
      [exists |-> TRUE, kind |-> "str", items |-> <<"not a list">>],
      [exists |-> TRUE, kind |-> "dict", items |-> <<SampleRecord(1, "passed")>>] }

InitialFiles == CorruptFiles \cup {NoFile, JsonList(<<>>), JsonList(<<SampleRecord(1, "failed")>>)}

InitStore ==
    /\ Fresh(Environment(LocalUrl, <<>>, <<>>, Down))
    /\ fn \in { [op |-> "append", initial |-> f, file |-> f, lines |-> h, appended |-> <<>>] :
                  f \in InitialFiles, h \in Histories }

append_record ==
    /\ fn.op = "append"
    /\ Len(fn.appended) < MaxAppends
    /\ \E o \in Outcomes :
          fn' = [fn EXCEPT !.file = _append_json_array(@, SampleRecord(1, o)),
                           !.lines = _append_jsonl(@, SampleRecord(1, o)),
                           !.appended = Append(@, SampleRecord(1, o))]
    /\ UNCHANGED <<env, pc, cur, todo, stack, res, cache, nav, callinfo, rep_by_phase, config, reports, session>>

SpecStore == InitStore /\ [][append_record]_vars

----------------------------------------------------------------------------
(* The summary of pytest_sessionfinish on its own, for every mix of        *)
(* outcomes in the results of a run.                                       *)

\* The results of a run of the first k items, k up to NumTests.
ResultSeqs ==
    UNION { { [i \in 1..k |-> SampleRecord(i, os[i])] : os \in [1..k -> Outcomes] } : k \in 0..NumTests }

InitSummary ==
    /\ Fresh(Environment(LocalUrl, <<>>, <<>>, Down))
    /\ fn \in { [op |-> "summary", results |-> rs, exitstatus |-> st, done |-> FALSE,
                 summary |-> Summary([_run_id |-> <<>>, _results |-> <<>>], 0)] :
                   rs \in ResultSeqs, st \in {0, 1, 2} }

summarize ==
    /\ fn.op = "summary"
    /\ ~fn.done
    /\ fn' = [fn EXCEPT !.done = TRUE,
                        !.summary = Summary([_run_id |-> <<"run_", _run_file_stamp>>,
                                             _results |-> fn.results], fn.exitstatus)]
    /\ UNCHANGED <<env, pc, cur, todo, stack, res, cache, nav, callinfo, rep_by_phase, config, reports, session>>

SpecSummary == InitSummary /\ [][summarize]_vars

----------------------------------------------------------------------------
(* Sessions invoked one after another in the same working directory, so    *)
(* over the same reports/ directory.  The sessions here run no item        *)
(* (pytest --collect-only): configure, collection, session finish.         *)

\* The times the wall clock can show when a session is configured.
Times == { [second |-> s, microsecond |-> m] : s \in 11..(11 + MaxElapsed), m \in {0, 500000} }

Later(a, b) ==
    \/ a.second < b.second
    \/ a.second = b.second /\ a.microsecond < b.microsecond

\* Collection only: no item is run and the session finishes with exit status 0.
collect_only ==
    /\ pc = "next"
    /\ cur = 0
    /\ pc' = "sessionfinish"
    /\ UNCHANGED <<env, cur, todo, stack, res, cache, nav, callinfo, rep_by_phase, config, reports, fn, session>>

\* A new pytest process, started after the last one ended: the wall clock has
\* moved on, the module state is new, the reports/ directory is as it was left.
new_session ==
    /\ pc = "done"
    /\ Len(reports.runs) < MaxRuns
    /\ \E t \in Times : Later(env.now, t) /\ env' = [env EXCEPT !.now = t]
    /\ pc' = "configure"
    /\ cur' = 0
    /\ config' = [set |-> FALSE, _run_id |-> <<>>, _results |-> <<>>]
    /\ session' = [exitstatus |-> 0]
    /\ UNCHANGED <<todo, stack, res, cache, nav, callinfo, rep_by_phase, reports, fn>>

NextRuns ==
    \/ pytest_configure
    \/ collect_only
    \/ pytest_sessionfinish
    \/ session_over
    \/ new_session

SpecRuns == Init /\ [][NextRuns]_vars

----------------------------------------------------------------------------
(* The file-name encoding on its own, applied to node ids made of the      *)
(* characters it replaces and of characters it leaves alone.               *)

\* "a" stands for any character _safe_filename leaves alone other than "_".
NameChars == {"a", "_", "/", "\\", ":", "[", "]", " "}

\* The characters the encoding is there to remove.
UnsafeChars == {"/", "\\", ":", "[", "]", " "}

NodeIdTexts == UNION { [1..n -> NameChars] : n \in 0..MaxNameLen }

InitNames ==
    /\ Fresh(Environment(LocalUrl, <<>>, <<>>, Down))
    /\ fn \in { [op |-> "encode", nodeid |-> t, done |-> FALSE, name |-> <<>>] : t \in NodeIdTexts }

\* f"{_safe_filename(item.nodeid)}.json"
encode ==
    /\ fn.op = "encode"
    /\ ~fn.done
    /\ fn' = [fn EXCEPT !.done = TRUE, !.name = _safe_filename(fn.nodeid) \o <<".json">>]
    /\ UNCHANGED <<env, pc, cur, todo, stack, res, cache, nav, callinfo, rep_by_phase, config, reports, session>>

SpecNames == InitNames /\ [][encode]_vars

----------------------------------------------------------------------------
(* Claims.                                                                 *)

\* The lines of history.jsonl that carry the id of the run in progress.
OfThisRun(r) == r.run_id = config._run_id

RunLines == SelectSeq(reports.history, OfThisRun)

\* The places of the records of test t in a sequence of records.
RecordsOf(results, t) == { i \in DOMAIN results : results[i].nodeid = NodeId(t) }

\* The teardown phase of the current item has been entered and its hook has returned.
PastTeardownHook ==
    \/ pc \in {"finalize", "next"}
    \/ pc = "report" /\ callinfo.when = "teardown"
    \/ pc \in {"sessionfinish", "session_teardown", "done"} /\ session.exitstatus \in {0, 1}

\* The current item is in its setup or call phase, or about to enter teardown.
BeforeTeardownHook ==
    \/ pc \in {"setup", "call", "teardown"}
    \/ pc = "report" /\ callinfo.when \in {"setup", "call"}

(* C1: every item the runner takes through its protocol gets exactly one   *)
(* record in the run's results: one for each earlier item, at most one for *)
(* the current item, none before its teardown phase and one once the       *)
(* teardown hook has returned, and no record of an item not yet started.   *)
(* After a session that was not cut short, every collected item has        *)
(* exactly one record, whether its call phase ran or only its setup.       *)
C1_OneRecordPerTest ==
    /\ \A t \in Tests :
          /\ t < cur => Cardinality(RecordsOf(config._results, t)) = 1
          /\ t > cur => RecordsOf(config._results, t) = {}
    /\ cur \in Tests =>
          /\ Cardinality(RecordsOf(config._results, cur)) <= 1
          /\ PastTeardownHook => Cardinality(RecordsOf(config._results, cur)) = 1
          /\ BeforeTeardownHook => RecordsOf(config._results, cur) = {}
    /\ Len(config._results) <= NumTests
    /\ (pc = "done" /\ session.exitstatus \in {0, 1}) =>
          \A t \in Tests : Cardinality(RecordsOf(config._results, t)) = 1

\* A finished session with a record for an item of which only the setup phase ran.
C1_Witness ==
    /\ pc = "done"
    /\ session.exitstatus \in {0, 1}
    /\ Len(config._results) = NumTests
    /\ \E i \in DOMAIN config._results : config._results[i].outcome = "skipped"
    /\ rep_by_phase.call = NoRep

(* C2: the final outcome is failed when the setup, call or teardown slot   *)
(* is failed; otherwise skipped when the setup or call slot is skipped;    *)
(* otherwise passed.  It is a function of the three slot outcomes alone.   *)
ReductionRule(s, c, t) ==
    IF "failed" \in {s, c, t} THEN "failed"
    ELSE IF "skipped" \in {s, c} THEN "skipped"
    ELSE "passed"

C2_ReductionRule ==
    (fn.op = "reduce" /\ fn.done) =>
        /\ fn.outcome = ReductionRule(fn.reps.setup.outcome, fn.reps.call.outcome,
                                      fn.reps.teardown.outcome)
        /\ (fn.reps.setup.outcome = "passed" /\ fn.reps.call.outcome = "failed"
              /\ fn.reps.teardown.outcome = "passed") => fn.outcome = "failed"
        /\ (fn.reps.setup.outcome = "skipped" /\ fn.reps.call.outcome = "absent"
              /\ fn.reps.teardown.outcome = "absent") => fn.outcome = "skipped"
        /\ (fn.reps.setup.outcome = "passed" /\ fn.reps.call.outcome = "passed"
              /\ fn.reps.teardown.outcome = "passed") => fn.outcome = "passed"

\* The reduction has been applied to (skipped, absent, absent).
C2_Witness ==
    /\ fn.op = "reduce" /\ fn.done
    /\ fn.reps.setup.outcome = "skipped"
    /\ fn.reps.call.outcome = "absent"
    /\ fn.reps.teardown.outcome = "absent"
    /\ fn.outcome = "skipped"

\* The record of the current item in the run's results, when it has one.
HasRecord == cur \in Tests /\ RecordsOf(config._results, cur) # {}
CurrentRecord == config._results[CHOOSE i \in RecordsOf(config._results, cur) : TRUE]

\* The setup phase of the current item ended with this outcome (reported or about to be).
SetupEnded ==
    \/ pc = "report" /\ callinfo.when = "setup"
    \/ rep_by_phase.setup # NoRep

SetupResult ==
    IF rep_by_phase.setup # NoRep THEN rep_by_phase.setup
    ELSE [outcome |-> callinfo.outcome, longrepr |-> callinfo.longrepr, duration |-> 1]

Mentions(longrepr, word) == \E i \in DOMAIN longrepr.text : longrepr.text[i] = word

Blank(str) == \A i \in DOMAIN str : str[i] = " "

(* C4: when TEST_USER or TEST_PASS is empty or blank, no test navigates    *)
(* (page.goto), logs in or enters its body, and a logged_in_page fixture   *)
(* that is reached ends the setup phase with the skip signal.              *)
C4_NoNavigationWithoutCredentials ==
    (Blank(env.TEST_USER) \/ Blank(env.TEST_PASS)) =>
        /\ ~nav.goto /\ ~nav.login /\ ~nav.body
        /\ (nav.probed /\ SetupEnded) => SetupResult.outcome = "skipped"

\* The gate skipped on a blank (not empty) user name, with the URL reachable.
C4_Witness ==
    /\ env.TEST_USER = <<" ">>
    /\ _is_reachable(base_url)
    /\ nav.probed
    /\ rep_by_phase.setup.outcome = "skipped"
    /\ rep_by_phase.setup.longrepr = MissingCredentialsReason
    /\ ~nav.goto

(* C5: a test whose setup and call phases passed and whose teardown phase  *)
(* failed has a record with outcome failed in the run's results, in its    *)
(* per-test history and in the global log.                                 *)
C5_TeardownFailureRecorded ==
    (/\ rep_by_phase.setup.outcome = "passed"
     /\ rep_by_phase.call.outcome = "passed"
     /\ rep_by_phase.teardown.outcome = "failed") =>
        /\ HasRecord
        /\ CurrentRecord.outcome = "failed"
        /\ Last(reports.tests[PerTestFile(cur)].items).outcome = "failed"
        /\ Last(reports.history).outcome = "failed"

(* C6: records appended one after another to a per-test history file that *)
(* starts corrupted (text that is not JSON, or JSON that is not a list)    *)
(* leave a valid JSON list holding exactly the appended records, in append *)
(* order: one element after the first append, N after N.                   *)
C6_AppendAfterCorruption ==
    (/\ fn.op = "append"
     /\ fn.initial.exists /\ fn.initial.kind # "list"
     /\ fn.appended # <<>>) =>
        /\ fn.file.exists
        /\ fn.file.kind = "list"
        /\ Len(fn.file.items) = Len(fn.appended)
        /\ fn.file.items = fn.appended

\* MaxAppends records were appended to a file that held the string "not a list".
C6_Witness ==
    /\ fn.op = "append"
    /\ fn.initial.kind = "str"
    /\ Len(fn.appended) = MaxAppends
    /\ Len(fn.file.items) = MaxAppends

\* The number of records with outcome o.
NumberOf(results, o) == Cardinality({ i \in DOMAIN results : results[i].outcome = o })

(* C7: in the run summary, totals.passed, totals.failed and totals.skipped *)
(* are the numbers of records of results with that outcome, totals.total   *)
(* is the length of results and the sum of the three.                      *)
C7_TotalsMatchResults ==
    (fn.op = "summary" /\ fn.done) =>
        LET t == fn.summary.totals
        IN  /\ fn.summary.results = fn.results
            /\ t.passed = NumberOf(fn.results, "passed")
            /\ t.failed = NumberOf(fn.results, "failed")
            /\ t.skipped = NumberOf(fn.results, "skipped")
            /\ t.total = Len(fn.results)
            /\ t.total = t.passed + t.failed + t.skipped

\* A summary of results with all three outcomes.
C7_Witness ==
    /\ fn.op = "summary" /\ fn.done
    /\ fn.summary.totals.passed >= 1
    /\ fn.summary.totals.failed >= 1
    /\ fn.summary.totals.skipped >= 1

\* The fixtures with code after their yield, in order of acquisition.
Chain == <<"playwright", "browser", "context", "page">>

(* C8: the fixtures are released in reverse order of acquisition: those    *)
(* still to release are always the first ones acquired, a context is       *)
(* closed only after its page, the browser only after every context and    *)
(* page, and the driver stops only after the browser is closed.            *)
C8_ReverseOrderRelease ==
    /\ stack = SubSeq(Chain, 1, Len(stack))
    /\ \A p \in DOMAIN res.pages :
          res.contexts[res.pages[p].ctx].state = "closed" => res.pages[p].state = "closed"
    /\ res.browser = "closed" =>
          /\ \A c \in DOMAIN res.contexts : res.contexts[c].state = "closed"
          /\ \A p \in DOMAIN res.pages : res.pages[p].state = "closed"
    /\ res.playwright = "stopped" => res.browser # "open"

\* The body of the last test raised, and everything has been released.
C8_Witness ==
    /\ pc = "done"
    /\ session.exitstatus = 1
    /\ rep_by_phase.call.outcome = "failed"
    /\ res.playwright = "stopped"
    /\ res.browser = "closed"
    /\ Len(res.pages) = NumTests
    /\ \A p \in DOMAIN res.pages : res.pages[p].state = "closed"

(* C9: every context and page is given to exactly one test, is open only   *)
(* while that test is the current one, and is closed when the runner takes *)
(* the next item and when the session is over, however the test ended; the *)
(* browser is launched once for the session.                               *)
C9_ContextAndPagePerTest ==
    /\ \A c \in DOMAIN res.contexts :
          /\ Cardinality(res.contexts[c].users) = 1
          /\ res.contexts[c].state = "open" => res.contexts[c].users = {cur}
    /\ \A p \in DOMAIN res.pages :
          /\ Cardinality(res.pages[p].users) = 1
          /\ res.pages[p].users = res.contexts[res.pages[p].ctx].users
          /\ res.pages[p].state = "open" => res.pages[p].users = {cur}
    /\ pc \in {"next", "done"} =>
          /\ \A c \in DOMAIN res.contexts : res.contexts[c].state = "closed"
          /\ \A p \in DOMAIN res.pages : res.pages[p].state = "closed"
    /\ res.launches <= 1
    /\ res.contexts # <<>> => res.launches = 1

\* The second test has its own context, the first one's being closed after a failed setup.
C9_Witness ==
    /\ cur = 2
    /\ pc = "setup"
    /\ Len(res.contexts) = 2
    /\ res.contexts[1].state = "closed"
    /\ res.contexts[2].state = "open"
    /\ Len(res.pages) = 0
    /\ config._results[1].outcome = "failed"

(* C10: the run summary file is written once, by the end of the session    *)
(* and not before, under the run's id, and holds every record the run      *)
(* produced; also when the session is cut short.                           *)
C10_SummaryWrittenOnce ==
    /\ Len(reports.runs) <= 1
    /\ Len(reports.runs) = 1 <=> pc \in {"session_teardown", "done"}
    /\ Len(reports.runs) = 1 =>
          /\ reports.runs[1].name = config._run_id \o <<".json">>
          /\ reports.runs[1].summary.run_id = config._run_id
          /\ reports.runs[1].summary.results = config._results
          /\ reports.runs[1].summary.results = RunLines

\* An interrupted session is over, its summary holding the records made before.
C10_Witness ==
    /\ pc = "done"
    /\ session.exitstatus = 2
    /\ Len(reports.runs) = 1
    /\ Len(reports.runs[1].summary.results) = 2

(* C11: run identifiers are unique per process invocation: no two          *)
(* sessions get the same run_id, so no two writes of a run summary, each   *)
(* made by its own session, go to the same reports/runs/<run_id>.json.     *)
C11_RunIdsUnique ==
    \A i, j \in DOMAIN reports.runs :
       i # j => /\ reports.runs[i].summary.run_id # reports.runs[j].summary.run_id
                /\ reports.runs[i].name # reports.runs[j].name

(* C12: within one test the record is built once, and only after the       *)
(* teardown phase has completed: a step that adds a record to the run's    *)
(* results adds the first record of the current item, and is taken with    *)
(* the setup report and the teardown report stored in the item's slots     *)
(* (and the call report when the setup passed), so that the reduction      *)
(* sees the teardown slot filled.                                          *)
C12_RecordAfterTeardownReport ==
    [][ Len(config'._results) > Len(config._results) =>
          /\ RecordsOf(config._results, cur) = {}
          /\ rep_by_phase.setup # NoRep
          /\ rep_by_phase.setup.outcome = "passed" => rep_by_phase.call # NoRep
          /\ rep_by_phase.teardown # NoRep ]_vars

\* The reduction was applied to slots of which the setup or the call slot is skipped.
SkipSignalled ==
    /\ fn.op = "reduce"
    /\ fn.done
    /\ fn.reps.setup.outcome = "skipped" \/ fn.reps.call.outcome = "skipped"

C14_LogInExecutionOrder ==
    /\ \A i \in DOMAIN config._results : config._results[i].nodeid = NodeId(i)
    /\ RunLines = config._results
    /\ Len(reports.history) >= Len(config._results)
    /\ \A i \in DOMAIN config._results :
          reports.history[Len(reports.history) - Len(config._results) + i] = config._results[i]

\* Two tests are over in a run that found a line of an earlier run in the log:
\* the first failed, the second passed.
C14_Witness ==
    /\ pc = "next"
    /\ cur = 2
    /\ Len(reports.history) = 3
    /\ reports.history[1] = SampleRecord(1, "failed")
    /\ reports.history[2].outcome = "failed"
    /\ reports.history[3].outcome = "passed"
    /\ reports.history[3].nodeid = NodeId(2)

(* C15: each node id has its own per-test history file: the file name      *)
(* made of a node id is the file name of no other node id, and it holds    *)
(* none of the characters / \ [ ] : and space.                             *)
C15_OneFilePerNodeId ==
    (fn.op = "encode" /\ fn.done) =>
       /\ \A other \in NodeIdTexts :
             other # fn.nodeid => _safe_filename(other) \o <<".json">> # fn.name
       /\ \A i \in DOMAIN fn.name : fn.name[i] \notin UnsafeChars

(* C16: appends only add.  An append to history.jsonl leaves every line   *)
(* there was as it is and adds one line, the record, at the end; an append *)
(* to a per-test file that holds a JSON list leaves the elements there     *)
(* were as they are, in order, and adds one element, the record, at the    *)
(* end.                                                                    *)
C16_AppendOnly ==
    [][ fn.op = "append" =>
          /\ Len(fn'.lines) = Len(fn.lines) + 1
          /\ Front(fn'.lines) = fn.lines
          /\ Last(fn'.lines) = Last(fn'.appended)
          /\ (fn.file.exists /\ fn.file.kind = "list") =>
                /\ fn'.file.exists /\ fn'.file.kind = "list"
                /\ Len(fn'.file.items) = Len(fn.file.items) + 1
                /\ Front(fn'.file.items) = fn.file.items
                /\ Last(fn'.file.items) = Last(fn'.appended) ]_vars

\* Two records were appended to a per-test file that held a list of one record
\* and to a log that held one line: both hold the three, the old one first.
C16_Witness ==
    /\ fn.op = "append"
    /\ fn.initial = JsonList(<<SampleRecord(1, "failed")>>)
    /\ Len(fn.appended) = 2
    /\ fn.file = JsonList(<<SampleRecord(1, "failed")>> \o fn.appended)
    /\ fn.lines = <<SampleRecord(1, "failed")>> \o fn.appended
    /\ fn.appended[1].outcome = "passed"

\* The hook has run on the slots of the item: the record it made.
HookRan == pc = "finalize" /\ Len(config._results) = 1

HookRecord == config._results[1]

(* C17: in every record the error field is populated if and only if the   *)
(* outcome is failed: null in a passed and in a skipped record, a text in  *)
(* a failed one; in the results, in the per-test file and in the log.      *)
C17_ErrorIffFailed ==
    /\ \A i \in DOMAIN config._results :
          config._results[i].error.is_none <=> config._results[i].outcome # "failed"
    /\ \A i \in DOMAIN reports.history :
          reports.history[i].error.is_none <=> reports.history[i].outcome # "failed"
    /\ \A f \in DOMAIN reports.tests : \A i \in DOMAIN reports.tests[f].items :
          reports.tests[f].items[i].error.is_none <=> reports.tests[f].items[i].outcome # "failed"
    /\ HookRan =>
          /\ HookRecord.outcome \in Outcomes
          /\ HookRecord.outcome = "failed" => ~HookRecord.error.is_none
          /\ HookRecord.outcome \in {"passed", "skipped"} => HookRecord.error = NoError

\* A skipped record: the setup report carries the skip reason as its longrepr,
\* the teardown passed, and the error field is null.
C17_Witness ==
    /\ HookRan
    /\ rep_by_phase.setup.outcome = "skipped"
    /\ rep_by_phase.setup.longrepr = MissingCredentialsReason
    /\ rep_by_phase.teardown.outcome = "passed"
    /\ HookRecord.outcome = "skipped"
    /\ HookRecord.error.is_none

\* The first failing phase in the order call, setup, teardown.
FirstFailing ==
    IF rep_by_phase.call.outcome = "failed" THEN "call"
    ELSE IF rep_by_phase.setup.outcome = "failed" THEN "setup"
    ELSE "teardown"

(* C18: when the final outcome is failed, the error text is the text of    *)
(* the failure of the first failing phase in the order call, setup,        *)
(* teardown; when making that text raises, it is the fixed placeholder,    *)
(* and the record is made all the same and is in the results, in the       *)
(* per-test file and in the log.                                           *)
C18_ErrorTextOfFirstFailingPhase ==
    (pc = "finalize" /\ \E ph \in Phases : rep_by_phase[ph].outcome = "failed") =>
       /\ Len(config._results) = 1
       /\ HookRecord.outcome = "failed"
       /\ ~HookRecord.error.is_none
       /\ HookRecord.error.text =
             IF rep_by_phase[FirstFailing].longrepr.str_raises
             THEN <<"Test failed (unable to stringify longrepr).">>
             ELSE rep_by_phase[FirstFailing].longrepr.text
       /\ reports.tests[PerTestFile(cur)] = JsonList(<<HookRecord>>)
       /\ reports.history = <<HookRecord>>

\* Setup and call both failed, the failure of the call cannot be made a text:
\* the record carries the placeholder and is in the three sinks.
C18_Witness ==
    /\ HookRan
    /\ rep_by_phase.setup.outcome = "failed"
    /\ ~rep_by_phase.setup.longrepr.str_raises
    /\ rep_by_phase.call.outcome = "failed"
    /\ rep_by_phase.call.longrepr.str_raises
    /\ HookRecord.error.text = <<"Test failed (unable to stringify longrepr).">>
    /\ Last(reports.history) = HookRecord
    /\ Last(reports.tests[PerTestFile(cur)].items) = HookRecord

\* The record is an element of the sequence.
In(record, records) == \E i \in DOMAIN records : records[i] = record

(* C19, as stated: the hook writes the record to the per-test file and to  *)
(* history.jsonl before it appends it to the run's results: a record in    *)
(* the results is already in both files.                                   *)
C19_SinksBeforeResults ==
    \A i \in DOMAIN config._results :
       /\ In(config._results[i], reports.tests[PerTestFile(cur)].items)
       /\ In(config._results[i], reports.history)

(* C19, amended: the hook appends the record to the run's results first,   *)
(* then to the per-test file, then to history.jsonl: a record in the       *)
(* per-test file is already in the results, and a record in history.jsonl  *)
(* is already in the results and in the per-test file.                     *)
C19_ResultsBeforeSinks ==
    /\ \A f \in DOMAIN reports.tests : \A i \in DOMAIN reports.tests[f].items :
          In(reports.tests[f].items[i], config._results)
    /\ \A i \in DOMAIN reports.history :
          /\ In(reports.history[i], config._results)
          /\ In(reports.history[i], reports.tests[PerTestFile(cur)].items)
    /\ (fn.op = "sinks" /\ fn.step > 1) => Len(config._results) = 1
    /\ (fn.op = "sinks" /\ fn.step > 2) => Len(reports.tests[PerTestFile(cur)].items) = 1
    /\ (fn.op = "sinks" /\ fn.step > 3) => Len(reports.history) = 1

\* The record is in the results and in neither file yet.
C19_Witness ==
    /\ fn.op = "sinks"
    /\ pc = "teardown"
    /\ Len(config._results) = 1
    /\ config._results[1].outcome = "failed"
    /\ ~reports.tests[PerTestFile(cur)].exists
    /\ reports.history = <<>>

====
